---- MODULE Spec2Model ----
(***************************************************************************)
(* A model of the REST client of this repository.                          *)
(*                                                                         *)
(* Two revisions of the client class are modelled side by side:            *)
(*   "RESTClient"  the class of src/unnamed/part_003 (deepMerge, injected  *)
(*                 fetchFn, RESTError(method, url, response), nine verbs), *)
(*   "RestClient"  the class of src/src/mod.ts (shallow updateOptions,     *)
(*                 Headers.set, RESTError(status, data), six verbs).       *)
(* The variable `variant` says which class the client object is.           *)
(*                                                                         *)
(* A JavaScript object is a function whose DOMAIN is its set of own keys;  *)
(* a headers object is the sequence of its <<name, value>> entries in      *)
(* insertion order; a JSON value is a tagged record.                       *)
(***************************************************************************)
EXTENDS Integers, Sequences, FiniteSets, TLC

VARIABLES
    variant,         \* which class the client is: "RESTClient" or "RestClient"
    baseURL,         \* this.baseURL
    defaultOptions,  \* this.defaultOptions
    nupdates,        \* updateOptions / auth calls made so far
    lastOptions,     \* history: the argument of the last updateOptions call
    authed,          \* history: the token of the last auth call still in force
    calls,           \* the verb-method calls, each with its position
    callerObjects    \* the caller's objects given to the constructor (ctor) and
                     \* to the last updateOptions call (upd), as they are now

vars == <<variant, baseURL, defaultOptions, nupdates, lastOptions, authed, calls,
          callerObjects>>

(***************************************************************************)
(* Bounds of the model.                                                    *)
(***************************************************************************)
\* updateOptions / auth calls made on the client in one behaviour
MaxUpdates == 2
\* length of the raw Allow header value a server sends
MaxAllowLen == 5
\* verb-method calls outstanding on the client at the same time
MaxCalls == 2

(***************************************************************************)
(* JavaScript and JSON values.                                             *)
(***************************************************************************)
Undefined == [t |-> "undefined"]
JNull == [t |-> "null"]
JBool(b) == [t |-> "bool", b |-> b]
JNum(n) == [t |-> "num", n |-> n]
JStr(s) == [t |-> "str", s |-> s]
\* an object: its entries <<key, value>> in insertion order
JObj(kv) == [t |-> "obj", kv |-> kv]
JArr(items) == [t |-> "arr", items |-> items]

\* ToBoolean(data), the test of `if (data)`
Truthy(v) ==
    CASE v.t = "undefined" -> FALSE
      [] v.t = "null" -> FALSE
      [] v.t = "bool" -> v.b
      [] v.t = "num" -> v.n # 0
      [] v.t = "str" -> v.s # ""
      [] OTHER -> TRUE

NumText(n) ==
    CASE n = 0 -> "0"
      [] n = 1 -> "1"
      [] n = 5 -> "5"
      [] OTHER -> "9"

Quote(s) == "\"" \o s \o "\""

RECURSIVE JSONstringify(_)
RECURSIVE StringifyEntries(_)
RECURSIVE StringifyItems(_)

\* JSON.stringify of a JSON value (compact form, keys in insertion order)
JSONstringify(v) ==
    CASE v.t = "null" -> "null"
      [] v.t = "bool" -> IF v.b THEN "true" ELSE "false"
      [] v.t = "num" -> NumText(v.n)
      [] v.t = "str" -> Quote(v.s)
      [] v.t = "obj" -> "{" \o StringifyEntries(v.kv) \o "}"
      [] v.t = "arr" -> "[" \o StringifyItems(v.items) \o "]"

StringifyEntries(kv) ==
    IF kv = <<>> THEN ""
    ELSE Quote(kv[1][1]) \o ":" \o JSONstringify(kv[1][2])
         \o (IF Len(kv) > 1 THEN "," ELSE "") \o StringifyEntries(Tail(kv))

StringifyItems(items) ==
    IF items = <<>> THEN ""
    ELSE JSONstringify(items[1])
         \o (IF Len(items) > 1 THEN "," ELSE "") \o StringifyItems(Tail(items))

\* the JSON values that occur as request data or in response bodies
TagsBody == JObj(<< <<"tags", JArr(<<JStr("a"), JStr("b")>>)>> >>)
ErrorsBody == JObj(<< <<"errors", JObj(<< <<"body", JArr(<<JStr("email taken")>>)>> >>)>> >>)
UserData == JObj(<< <<"name", JStr("foo")>> >>)
EmptyObj == JObj(<<>>)

JsonUniverse ==
    {TagsBody, ErrorsBody, UserData, EmptyObj,
     JNum(0), JNum(1), JStr(""), JStr("x"), JBool(FALSE), JBool(TRUE), JNull}

\* Response.json(): the text parsed as JSON; a text that is no JSON document
\* (the empty text included) makes the promise reject with a SyntaxError
JSONparse(text) ==
    IF \E v \in JsonUniverse : JSONstringify(v) = text
    THEN [ok |-> TRUE, value |-> CHOOSE v \in JsonUniverse : JSONstringify(v) = text]
    ELSE [ok |-> FALSE, value |-> Undefined]

(***************************************************************************)
(* Headers.                                                                *)
(***************************************************************************)
ContentType == "Content-Type"
ApplicationJson == "application/json"
Null == "<null>"

\* a header name in lower case (header names are case-insensitive on the wire)
Lower(name) ==
    CASE name = "Content-Type" -> "content-type"
      [] name = "Accept" -> "accept"
      [] name = "Authentication" -> "authentication"
      [] name = "Allow" -> "allow"
      [] OTHER -> name

HasKey(h, k) == \E i \in 1..Len(h) : h[i][1] = k

\* h[k] of a plain object
Lookup(h, k) ==
    IF HasKey(h, k) THEN h[CHOOSE i \in 1..Len(h) : h[i][1] = k][2] ELSE Null

\* h[k] = v on a plain object: an existing key keeps its place
SetKey(h, k, v) ==
    IF HasKey(h, k)
    THEN [i \in 1..Len(h) |-> IF h[i][1] = k THEN <<k, v>> ELSE h[i]]
    ELSE Append(h, <<k, v>>)

RECURSIVE MergeObject(_, _)
\* deepMerge of two flat objects of strings: key by key, the later value wins
MergeObject(a, b) ==
    IF b = <<>> THEN a
    ELSE MergeObject(SetKey(a, b[1][1], b[1][2]), Tail(b))

RECURSIVE HeadersAppendAll(_, _)
\* new Headers(init): every entry appended under its lower-case name; values
\* of one name are combined with ", "
HeadersAppendAll(hs, init) ==
    IF init = <<>> THEN hs
    ELSE LET k == Lower(init[1][1])
             v == init[1][2]
             nxt == IF HasKey(hs, k)
                    THEN SetKey(hs, k, Lookup(hs, k) \o ", " \o v)
                    ELSE Append(hs, <<k, v>>)
         IN HeadersAppendAll(nxt, Tail(init))

NewHeaders(init) == HeadersAppendAll(<<>>, init)

\* Headers.prototype.set
HeadersSet(hs, name, value) == SetKey(hs, Lower(name), value)

\* what the transport reads for header `name` of a request's headers init:
\* new Headers(init).get(name)
HeaderOnWire(init, name) == Lookup(NewHeaders(init), Lower(name))

(***************************************************************************)
(* Option objects (RequestInit).                                           *)
(***************************************************************************)
EmptyObject == [k \in {} |-> Null]

\* { ...a, ...b }: the own keys of both, b's value where both have the key
Spread(a, b) == b @@ a

\* obj.key = value
Assign(obj, key, value) == (key :> value) @@ obj

\* deepMerge(a, b) of @cross/deepmerge on option objects: a new object; a key
\* of both that holds an object (headers) is merged key by key, any other key
\* of b replaces a's
deepMerge(a, b) ==
    [k \in DOMAIN a \cup DOMAIN b |->
        IF k \notin DOMAIN b THEN a[k]
        ELSE IF k = "headers" /\ k \in DOMAIN a THEN MergeObject(a[k], b[k])
        ELSE b[k]]

\* deepMerge(opt.headers, headers): an undefined first argument is skipped
deepMergeHeaders(opt, headers) ==
    IF "headers" \in DOMAIN opt THEN MergeObject(opt["headers"], headers)
    ELSE MergeObject(<<>>, headers)

JsonContentType == << <<ContentType, ApplicationJson>> >>

(***************************************************************************)
(* URLs: [origin, path, search], the path as its segments.                 *)
(***************************************************************************)
RECURSIVE NormalizeSegs(_, _)
\* "." segments removed, "seg/.." pairs removed
NormalizeSegs(done, rest) ==
    IF rest = <<>> THEN done
    ELSE IF rest[1] = "." THEN NormalizeSegs(done, Tail(rest))
    ELSE IF rest[1] = ".." /\ done # <<>> /\ done[Len(done)] # ".."
         THEN NormalizeSegs(SubSeq(done, 1, Len(done) - 1), Tail(rest))
    ELSE NormalizeSegs(Append(done, rest[1]), Tail(rest))

DropLast(segs) == IF segs = <<>> THEN <<>> ELSE SubSeq(segs, 1, Len(segs) - 1)

\* buildAbsoluteURL(baseURL, relative) of url-toolkit: a path that starts
\* with "/" replaces the base's path, any other path replaces the base path's
\* last segment and is normalized
buildAbsoluteURL(base, path, search) ==
    [origin |-> base.origin,
     path |-> IF path.abs THEN path.segs
              ELSE NormalizeSegs(<<>>, DropLast(base.path) \o path.segs),
     search |-> search]

NonEmptySegs(segs) == SelectSeq(segs, LAMBDA s : s # "")

\* #createRequestURL of src/mod.ts: node:path join(url.pathname, path), which
\* appends every path to the base's path
createRequestURL(base, path, params) ==
    [origin |-> base.origin,
     path |-> NormalizeSegs(<<>>, NonEmptySegs(base.path) \o NonEmptySegs(path.segs)),
     search |-> IF params = Null THEN "" ELSE "?" \o params]

\* `?${params.toString()}` when params is given
SearchOf(params) == IF params = Null THEN "" ELSE "?" \o params

ExampleBase == [origin |-> "https://api.example.com", path |-> <<"api", "">>]

DotTags == [abs |-> FALSE, segs |-> <<".", "tags">>]
AbsUsers == [abs |-> TRUE, segs |-> <<"users">>]

(***************************************************************************)
(* Responses and errors.                                                   *)
(***************************************************************************)
\* Response.ok
Ok(res) == res.status >= 200 /\ res.status <= 299

\* RESTError of part_003
RESTError(method, url, res) ==
    [t |-> "RESTError", method |-> method, url |-> url, response |-> res]

\* RESTError of src/mod.ts
RESTErrorData(status, data) ==
    [t |-> "RESTError", status |-> status, data |-> data]

SyntaxError == [t |-> "SyntaxError"]

Pending == [kind |-> "pending"]
Return(v) == [kind |-> "return", value |-> v]
Throw(e) == [kind |-> "throw", error |-> e]

\* results of the verb methods, tagged by their kind
JsonResult(v) == [t |-> "json", v |-> v]
HeadersResult(h) == [t |-> "headers", h |-> h]
ListResult(items) == [t |-> "list", items |-> items]
VoidResult == [t |-> "void"]

(***************************************************************************)
(* The Allow response header: a header value is a sequence of characters.  *)
(***************************************************************************)
\* HTTP white space (space and tab), which \s matches as well
IsSpace(ch) == ch \in {" ", "\t"}

NullAllow == <<"<null>">>

RECURSIVE SkipSpaces(_, _)
\* the first index from i on that holds no white space (Len(s) + 1 if none)
SkipSpaces(s, i) ==
    IF i > Len(s) \/ ~IsSpace(s[i]) THEN i ELSE SkipSpaces(s, i + 1)

RECURSIVE TrimRight(_)
TrimRight(s) ==
    IF s # <<>> /\ IsSpace(s[Len(s)]) THEN TrimRight(SubSeq(s, 1, Len(s) - 1)) ELSE s

\* a Headers object stores a value with its leading and trailing white space
\* removed
NormalizeHeaderValue(s) == TrimRight(SubSeq(s, SkipSpaces(s, 1), Len(s)))

\* /\s*,\s*/ tried at index q: the index after the match, 0 when it fails
SeparatorEnd(s, q) ==
    LET j == SkipSpaces(s, q)
    IN IF j <= Len(s) /\ s[j] = "," THEN SkipSpaces(s, j + 1) ELSE 0

RECURSIVE SplitFrom(_, _, _, _)
\* String.prototype.split: p the start of the current piece, q the index the
\* separator is tried at
SplitFrom(s, p, q, acc) ==
    IF q > Len(s) THEN Append(acc, SubSeq(s, p, Len(s)))
    ELSE LET e == SeparatorEnd(s, q)
         IN IF e = 0 THEN SplitFrom(s, p, q + 1, acc)
            ELSE SplitFrom(s, e, e, Append(acc, SubSeq(s, p, q - 1)))

RECURSIVE SplitOnComma(_, _, _)
\* allow.split(","): the pieces between the commas, white space kept
SplitOnComma(s, piece, acc) ==
    IF s = <<>> THEN Append(acc, piece)
    ELSE IF s[1] = "," THEN SplitOnComma(Tail(s), <<>>, Append(acc, piece))
    ELSE SplitOnComma(Tail(s), Append(piece, s[1]), acc)

SplitAllowPlain(s) == SplitOnComma(s, <<>>, <<>>)

\* allow.split(/\s*,\s*/)
SplitAllow(s) == IF s = <<>> THEN << <<>> >> ELSE SplitFrom(s, 1, 1, <<>>)

(***************************************************************************)
(* The verb methods of the two classes.                                    *)
(***************************************************************************)
AllVerbs == {"get", "head", "post", "put", "delete", "patch", "options", "connect", "trace"}

VerbsOf(v) ==
    IF v = "RESTClient" THEN AllVerbs
    ELSE {"get", "head", "post", "put", "delete", "patch"}

\* the verbs whose method takes a data argument
DataVerbs == {"post", "put", "delete", "patch", "options"}

\* the method each verb method passes to send
MethodOf(verb) ==
    CASE verb = "get" -> "GET"
      [] verb = "head" -> "HEAD"
      [] verb = "post" -> "POST"
      [] verb = "put" -> "PUT"
      [] verb = "delete" -> "DELETE"
      [] verb = "patch" -> "PATCH"
      [] verb = "options" -> "OPTIONS"
      [] verb = "connect" -> "CONNECT"
      [] verb = "trace" -> "TRACE"

(***************************************************************************)
(* The client's methods.                                                   *)
(***************************************************************************)
\* updateOptions: deepMerge in RESTClient, a shallow spread in src/mod.ts
updateOptions(v, defaults, options) ==
    IF v = "RESTClient" THEN deepMerge(defaults, options)
    ELSE Spread(defaults, options)

\* authOptions with the token stored behind a "Bearer " prefix
authOptionsBearer(token) == [headers |-> << <<"Authentication", "Bearer " \o token>> >>]

\* the options object auth(token) passes to updateOptions
authOptions(token) == [headers |-> << <<"Authentication", token>> >>]

\* afterUpdateOptions with the merge writing into its first argument, whose
\* headers object is the one of the constructor's argument
afterUpdateOptionsInPlace(v, held, options) ==
    [ctor |-> IF "headers" \in DOMAIN held.ctor /\ "headers" \in DOMAIN options
              THEN [held.ctor EXCEPT !["headers"] = MergeObject(@, options["headers"])]
              ELSE held.ctor,
     upd |-> options]

\* the caller's objects after updateOptions(options): deepMerge (part_003) and
\* the spread (src/mod.ts) build a new object from defaultOptions and options
\* and write to neither; the constructor's { ...defaultOptions } is a copy too
afterUpdateOptions(v, held, options) == [ctor |-> held.ctor, upd |-> options]

\* optionsAfterSend with send writing to the call-site object itself
optionsAssignedInPlace(options, req) == req.opt

\* the call-site options object after send: send writes method, headers and
\* body to opt = { ...options }, a copy
optionsAfterSend(options, req) == options

\* sendRequest with the method set before the call-site options are spread
sendRequestOptionsLast(v, base, method, path, params, data, options) ==
    LET opt0 == Spread(Assign(EmptyObject, "method", method), options)
        headers == IF v = "RESTClient" THEN deepMergeHeaders(opt0, JsonContentType)
                   ELSE HeadersSet(NewHeaders(IF "headers" \in DOMAIN opt0
                                              THEN opt0["headers"] ELSE <<>>),
                                   ContentType, ApplicationJson)
    IN [url |-> IF v = "RESTClient" THEN buildAbsoluteURL(base, path, SearchOf(params))
                ELSE createRequestURL(base, path, params),
        opt |-> IF Truthy(data)
                THEN Assign(Assign(opt0, "headers", headers), "body", JSONstringify(data))
                ELSE opt0]

\* send up to its call of the transport: the url and the options it passes
sendRequest(v, base, method, path, params, data, options) ==
    LET opt0 == Assign(Spread(EmptyObject, options), "method", method)
        headers == IF v = "RESTClient" THEN deepMergeHeaders(opt0, JsonContentType)
                   ELSE HeadersSet(NewHeaders(IF "headers" \in DOMAIN opt0
                                              THEN opt0["headers"] ELSE <<>>),
                                   ContentType, ApplicationJson)
    IN [url |-> IF v = "RESTClient" THEN buildAbsoluteURL(base, path, SearchOf(params))
                ELSE createRequestURL(base, path, params),
        opt |-> IF Truthy(data)
                THEN Assign(Assign(opt0, "headers", headers), "body", JSONstringify(data))
                ELSE opt0]

\* afterSend with connect returning through #getParsedResponseBody
afterSendConnectParses(verb, res) ==
    CASE verb = "head" -> [pc |-> "done", outcome |-> Return(HeadersResult(res.headers))]
      [] verb = "options" ->
            [pc |-> "done",
             outcome |-> IF res.headers.allow = NullAllow THEN Return(ListResult(<<>>))
                         ELSE Return(ListResult(SplitAllow(res.headers.allow)))]
      [] OTHER -> [pc |-> "json", outcome |-> Pending]

\* what a verb method does with the Response send returned (RESTClient):
\* the position it moves to and its outcome
afterSend(verb, res) ==
    CASE verb = "head" -> [pc |-> "done", outcome |-> Return(HeadersResult(res.headers))]
      [] verb = "options" ->
            [pc |-> "done",
             outcome |-> IF res.headers.allow = NullAllow THEN Return(ListResult(<<>>))
                         ELSE Return(ListResult(SplitAllow(res.headers.allow)))]
      [] verb = "connect" -> [pc |-> "done", outcome |-> Return(VoidResult)]
      [] OTHER -> [pc |-> "json", outcome |-> Pending]

\* onResponse without the `if (!res.ok)` test
onResponseUnchecked(v, c, res) ==
    IF v = "RESTClient" THEN afterSend(c.verb, res)
    ELSE [pc |-> "json", outcome |-> Pending]

\* the continuation of `await this.fetchFn(url, opt)` when it resolves with res
onResponse(v, c, res) ==
    IF v = "RESTClient"
    THEN IF ~Ok(res)
         THEN [pc |-> "done", outcome |-> Throw(RESTError(c.method, c.url, res))]
         ELSE afterSend(c.verb, res)
    ELSE [pc |-> "json", outcome |-> Pending]

\* onJson with a failure of the decoder caught and undefined returned
onJsonSwallow(v, c) ==
    LET parsed == JSONparse(c.res.body)
    IN IF ~parsed.ok THEN Return(JsonResult(Undefined))
       ELSE IF v = "RestClient" /\ ~Ok(c.res)
            THEN Throw(RESTErrorData(c.res.status, parsed.value))
       ELSE Return(JsonResult(parsed.value))

\* the continuation of `await res.json()`
onJson(v, c) ==
    LET parsed == JSONparse(c.res.body)
    IN IF ~parsed.ok THEN Throw(SyntaxError)
       ELSE IF v = "RestClient" /\ ~Ok(c.res)
            THEN Throw(RESTErrorData(c.res.status, parsed.value))
       ELSE Return(JsonResult(parsed.value))

(***************************************************************************)
(* Inputs.                                                                 *)
(***************************************************************************)
Variants == {"RESTClient", "RestClient"}

ConstructorOptions == {EmptyObject, [headers |-> << <<ContentType, ApplicationJson>> >>]}

UpdateOptionsArgs ==
    {[headers |-> << <<"Accept", ApplicationJson>> >>],
     [headers |-> << <<ContentType, "text/plain">> >>, credentials |-> "include",
      method |-> "PURGE"]}

Tokens == {"Bearer abc123", "Bearer xyz", ""}

Paths == {DotTags, AbsUsers}

ParamsArgs == {Null}

DataArgs == {Undefined, UserData, JNum(0)}

OptionsArgs ==
    {EmptyObject,
     [headers |-> << <<ContentType, "text/plain">> >>, credentials |-> "omit"],
     [headers |-> << <<"content-type", "text/plain">> >>],
     [body |-> "raw", method |-> "PURGE"]}

Statuses == {200, 204, 299, 300, 422}

BodiesOf(status) ==
    IF status = 204 THEN {""}
    ELSE IF status <= 299 THEN {"", JSONstringify(TagsBody), "<html>"}
    ELSE {"", JSONstringify(ErrorsBody), "<html>"}

AllowsOf(verb) ==
    IF verb = "options" THEN {NullAllow, <<"G", " ", ",", "P">>} ELSE {NullAllow}

Responses(verb) ==
    UNION {{[status |-> st, headers |-> [allow |-> NormalizeHeaderValue(a)], body |-> b] :
                a \in AllowsOf(verb), b \in BodiesOf(st)} : st \in Statuses}

TransportErrors == {[t |-> "TypeError"], [t |-> "AbortError"]}

Idle == [pc |-> "idle"]

(***************************************************************************)
(* The state machine.                                                      *)
(***************************************************************************)
Init ==
    /\ variant \in Variants
    /\ baseURL = ExampleBase
    /\ \E d \in ConstructorOptions :
          /\ defaultOptions = Spread(EmptyObject, d)
          /\ callerObjects = [ctor |-> d, upd |-> EmptyObject]
    /\ nupdates = 0
    /\ lastOptions = EmptyObject
    /\ authed = Null
    /\ calls = <<Idle>>

\* UpdateOptions with send having handed this.defaultOptions itself to the
\* transport: the options of every request in flight change as well
UpdateOptionsLive(options) ==
    /\ nupdates < MaxUpdates
    /\ defaultOptions' = updateOptions(variant, defaultOptions, options)
    /\ nupdates' = nupdates + 1
    /\ lastOptions' = options
    /\ authed' = IF "headers" \in DOMAIN options
                    /\ HeaderOnWire(options["headers"], "Authentication") # Null
                 THEN Null ELSE authed
    /\ calls' = [j \in DOMAIN calls |->
            IF calls[j].pc = "fetch"
            THEN [calls[j] EXCEPT !.opt = updateOptions(variant, @, options)]
            ELSE calls[j]]
    /\ callerObjects' = afterUpdateOptions(variant, callerObjects, options)
    /\ UNCHANGED <<variant, baseURL>>

\* client.updateOptions(options)
UpdateOptions(options) ==
    /\ nupdates < MaxUpdates
    /\ defaultOptions' = updateOptions(variant, defaultOptions, options)
    /\ nupdates' = nupdates + 1
    /\ lastOptions' = options
    /\ authed' = IF "headers" \in DOMAIN options
                    /\ HeaderOnWire(options["headers"], "Authentication") # Null
                 THEN Null ELSE authed
    /\ callerObjects' = afterUpdateOptions(variant, callerObjects, options)
    /\ UNCHANGED <<variant, baseURL, calls>>

\* client.auth(token), a method of RESTClient only
Auth(token) ==
    /\ variant = "RESTClient"
    /\ nupdates < MaxUpdates
    /\ defaultOptions' = updateOptions(variant, defaultOptions, authOptions(token))
    /\ nupdates' = nupdates + 1
    /\ lastOptions' = authOptions(token)
    /\ authed' = token
    /\ callerObjects' = afterUpdateOptions(variant, callerObjects, authOptions(token))
    /\ UNCHANGED <<variant, baseURL, calls>>

\* Call with send keeping its merged options in this.defaultOptions
CallStoring(i, verb, path, params, data, options) ==
    /\ calls[i].pc = "idle"
    /\ verb \in VerbsOf(variant)
    /\ verb \notin DataVerbs => data = Undefined
    /\ LET req == sendRequest(variant, baseURL, MethodOf(verb), path, params, data, options)
       IN /\ calls' = [calls EXCEPT ![i] =
               [pc |-> "fetch", verb |-> verb, path |-> path, params |-> params,
                data |-> data, options |-> options,
                method |-> MethodOf(verb), url |-> req.url, opt |-> req.opt,
                fetches |-> 1, jsons |-> 0, outcome |-> Pending,
             callerOptions |-> optionsAfterSend(options, req)]]
          /\ defaultOptions' = req.opt
    /\ UNCHANGED <<variant, baseURL, nupdates, lastOptions, authed, callerObjects>>

\* client.<verb>(path, params, data, options) up to `await this.fetchFn(url, opt)`
Call(i, verb, path, params, data, options) ==
    /\ calls[i].pc = "idle"
    /\ verb \in VerbsOf(variant)
    /\ verb \notin DataVerbs => data = Undefined
    /\ LET req == sendRequest(variant, baseURL, MethodOf(verb), path, params, data, options)
       IN calls' = [calls EXCEPT ![i] =
            [pc |-> "fetch", verb |-> verb, path |-> path, params |-> params,
             data |-> data, options |-> options,
             method |-> MethodOf(verb), url |-> req.url, opt |-> req.opt,
             fetches |-> 1, jsons |-> 0, outcome |-> Pending,
             callerOptions |-> optionsAfterSend(options, req)]]
    /\ UNCHANGED <<variant, baseURL, defaultOptions, nupdates, lastOptions, authed,
                   callerObjects>>

\* FetchResolve with the response kept in a field the calls share: every call
\* waiting for the transport continues with res
FetchResolveShared(i, res) ==
    /\ calls[i].pc = "fetch"
    /\ calls' = [j \in DOMAIN calls |->
            IF calls[j].pc = "fetch"
            THEN LET nxt == onResponse(variant, calls[j], res)
                 IN [res |-> res] @@
                    [calls[j] EXCEPT !.pc = nxt.pc, !.outcome = nxt.outcome,
                                     !.jsons = IF nxt.pc = "json" THEN 1 ELSE 0]
            ELSE calls[j]]
    /\ UNCHANGED <<variant, baseURL, defaultOptions, nupdates, lastOptions, authed,
                   callerObjects>>

\* the transport resolves with a Response
FetchResolve(i, res) ==
    /\ calls[i].pc = "fetch"
    /\ LET nxt == onResponse(variant, calls[i], res)
       IN calls' = [calls EXCEPT ![i] =
            [res |-> res] @@
            [calls[i] EXCEPT !.pc = nxt.pc, !.outcome = nxt.outcome,
                             !.jsons = IF nxt.pc = "json" THEN 1 ELSE 0]]
    /\ UNCHANGED <<variant, baseURL, defaultOptions, nupdates, lastOptions, authed,
                   callerObjects>>

\* FetchReject with send catching the transport's error into a RESTError
FetchRejectWrapped(i, err) ==
    /\ calls[i].pc = "fetch"
    /\ calls' = [calls EXCEPT ![i] =
            [err |-> err] @@
            [calls[i] EXCEPT !.pc = "done",
                             !.outcome = Throw(RESTError(calls[i].method, calls[i].url, err))]]
    /\ UNCHANGED <<variant, baseURL, defaultOptions, nupdates, lastOptions, authed,
                   callerObjects>>

\* FetchReject with send invoking the transport a second time after a failure
FetchRejectRetry(i, err) ==
    /\ calls[i].pc = "fetch"
    /\ calls' = [calls EXCEPT ![i] =
            IF calls[i].fetches = 1
            THEN [calls[i] EXCEPT !.fetches = 2]
            ELSE [err |-> err] @@ [calls[i] EXCEPT !.pc = "done", !.outcome = Throw(err)]]
    /\ UNCHANGED <<variant, baseURL, defaultOptions, nupdates, lastOptions, authed,
                   callerObjects>>

\* the transport rejects with err: the await throws the transport's error
FetchReject(i, err) ==
    /\ calls[i].pc = "fetch"
    /\ calls' = [calls EXCEPT ![i] =
            [err |-> err] @@ [calls[i] EXCEPT !.pc = "done", !.outcome = Throw(err)]]
    /\ UNCHANGED <<variant, baseURL, defaultOptions, nupdates, lastOptions, authed,
                   callerObjects>>

\* res.json() settles
JsonSettle(i) ==
    /\ calls[i].pc = "json"
    /\ calls' = [calls EXCEPT ![i] =
            [@ EXCEPT !.pc = "done", !.outcome = onJson(variant, calls[i])]]
    /\ UNCHANGED <<variant, baseURL, defaultOptions, nupdates, lastOptions, authed,
                   callerObjects>>

\* the caller has taken the result; the next call may start
Settled(i) ==
    /\ calls[i].pc = "done"
    /\ calls' = [calls EXCEPT ![i] = Idle]
    /\ UNCHANGED <<variant, baseURL, defaultOptions, nupdates, lastOptions, authed,
                   callerObjects>>

Next ==
    \/ \E o \in UpdateOptionsArgs : UpdateOptions(o)
    \/ \E t \in Tokens : Auth(t)
    \/ \E i \in DOMAIN calls, verb \in AllVerbs, path \in Paths, params \in ParamsArgs,
          data \in DataArgs, options \in OptionsArgs :
            Call(i, verb, path, params, data, options)
    \/ \E i \in DOMAIN calls :
          \E res \in (IF calls[i].pc = "fetch" THEN Responses(calls[i].verb) ELSE {}) :
            FetchResolve(i, res)
    \/ \E i \in DOMAIN calls, err \in TransportErrors : FetchReject(i, err)
    \/ \E i \in DOMAIN calls : JsonSettle(i)
    \/ \E i \in DOMAIN calls : Settled(i)

Spec == Init /\ [][Next]_vars

(***************************************************************************)
(* OPTIONS requests answered with every Allow value up to MaxAllowLen.     *)
(***************************************************************************)
AllowChars == {"G", " ", "\t", ","}

RawAllows == UNION {[1..n -> AllowChars] : n \in 0..MaxAllowLen} \cup {NullAllow}

AllowResponses ==
    {[status |-> st, headers |-> [allow |-> NormalizeHeaderValue(a)], body |-> b] :
        st \in {200, 422}, a \in RawAllows, b \in {"", "<html>"}}

InitAllow ==
    /\ variant = "RESTClient"
    /\ baseURL = ExampleBase
    /\ defaultOptions = EmptyObject
    /\ nupdates = 0
    /\ lastOptions = EmptyObject
    /\ authed = Null
    /\ calls = <<Idle>>
    /\ callerObjects = [ctor |-> EmptyObject, upd |-> EmptyObject]

NextAllow ==
    \/ \E data \in {Undefined, UserData} :
          Call(1, "options", DotTags, Null, data, EmptyObject)
    \/ \E res \in AllowResponses : FetchResolve(1, res)
    \/ Settled(1)

SpecAllow == InitAllow /\ [][NextAllow]_vars

(***************************************************************************)
(* Several calls outstanding at the same time on one client.               *)
(***************************************************************************)
ConcurrentVerbs == {"get", "post"}

ConcurrentUpdates == {[headers |-> << <<"Accept", ApplicationJson>> >>]}

ConcurrentResponses ==
    {[status |-> 200, headers |-> [allow |-> NullAllow], body |-> JSONstringify(TagsBody)],
     [status |-> 422, headers |-> [allow |-> NullAllow], body |-> "<html>"]}

InitConcurrent ==
    /\ variant \in Variants
    /\ baseURL = ExampleBase
    /\ defaultOptions = EmptyObject
    /\ nupdates = 0
    /\ lastOptions = EmptyObject
    /\ authed = Null
    /\ calls = [i \in 1..MaxCalls |-> Idle]
    /\ callerObjects = [ctor |-> EmptyObject, upd |-> EmptyObject]

NextConcurrent ==
    \/ \E o \in ConcurrentUpdates : UpdateOptions(o)
    \/ \E i \in DOMAIN calls, verb \in ConcurrentVerbs, path \in Paths,
          data \in {Undefined, UserData} :
            Call(i, verb, path, Null, data, EmptyObject)
    \/ \E i \in DOMAIN calls, res \in ConcurrentResponses : FetchResolve(i, res)
    \/ \E i \in DOMAIN calls : FetchReject(i, [t |-> "AbortError"])
    \/ \E i \in DOMAIN calls : JsonSettle(i)
    \/ \E i \in DOMAIN calls : Settled(i)

SpecConcurrent == InitConcurrent /\ [][NextConcurrent]_vars

(***************************************************************************)
(* updateOptions and auth called while a request is in flight: every call  *)
(* starts on the client as constructed, and the options are updated only   *)
(* while a call is waiting for the transport or for the body.              *)
(***************************************************************************)
InFlight == \E i \in DOMAIN calls : calls[i].pc \in {"fetch", "json"}

InitInFlight ==
    /\ variant \in Variants
    /\ baseURL = ExampleBase
    /\ \E d \in ConstructorOptions :
          /\ defaultOptions = Spread(EmptyObject, d)
          /\ callerObjects = [ctor |-> d, upd |-> EmptyObject]
    /\ nupdates = 0
    /\ lastOptions = EmptyObject
    /\ authed = Null
    /\ calls = <<Idle>>

NextInFlight ==
    \/ \E verb \in ConcurrentVerbs, path \in Paths, data \in {Undefined, UserData},
          options \in OptionsArgs :
            nupdates = 0 /\ Call(1, verb, path, Null, data, options)
    \/ \E o \in UpdateOptionsArgs : InFlight /\ UpdateOptions(o)
    \/ \E t \in Tokens : InFlight /\ Auth(t)
    \/ \E res \in ConcurrentResponses : FetchResolve(1, res)
    \/ \E err \in TransportErrors : FetchReject(1, err)
    \/ JsonSettle(1)
    \/ Settled(1)

SpecInFlight == InitInFlight /\ [][NextInFlight]_vars

(***************************************************************************)
(* Properties.                                                             *)
(***************************************************************************)
HeadersOf(o) == IF "headers" \in DOMAIN o THEN o["headers"] ELSE <<>>

Keys(h) == {h[i][1] : i \in 1..Len(h)}

\* call i has just been made: its request has been handed to the transport
Started(i) == calls[i].pc = "idle" /\ calls'[i].pc = "fetch"

\* call i has a response from the transport
Responded(i) == calls[i].pc \in {"json", "done"} /\ "res" \in DOMAIN calls[i]

\* C1: every updateOptions call leaves in defaultOptions.headers each header
\* of its argument with the argument's value and each previously stored
\* header of another key with its old value.
C1_HeadersMergedKeyByKey ==
    [][nupdates' # nupdates =>
         LET old == HeadersOf(defaultOptions)
             arg == HeadersOf(lastOptions')
             new == HeadersOf(defaultOptions')
         IN \A k \in Keys(old) \cup Keys(arg) :
               Lookup(new, k) = IF HasKey(arg, k) THEN Lookup(arg, k) ELSE Lookup(old, k)]_vars

\* C2: a verb method called while the token of the last auth call is in
\* force hands the transport a request whose Authentication header is that
\* token.
C2_AuthHeaderOnEveryRequest ==
    [][\A i \in DOMAIN calls :
         Started(i) /\ authed # Null =>
           HeaderOnWire(HeadersOf(calls'[i].opt), "Authentication") = authed]_vars

\* C3: the options handed to the transport carry every field and header of
\* defaultOptions that the call-site options do not have, with the default
\* value, and every field and header of both with the call-site value (the
\* method, and the body and Content-Type of a call with data, are set by the
\* client).
C3_OptionsMergedOverDefaults ==
    [][\A i \in DOMAIN calls :
         Started(i) =>
           LET c == calls'[i]
               set == IF Truthy(c.data) THEN {"method", "headers", "body"}
                      ELSE {"method", "headers"}
               dh == HeadersOf(defaultOptions)
               oh == HeadersOf(c.options)
           IN /\ \A k \in (DOMAIN defaultOptions \cup DOMAIN c.options) \ set :
                    /\ k \in DOMAIN c.opt
                    /\ c.opt[k] = IF k \in DOMAIN c.options THEN c.options[k]
                                  ELSE defaultOptions[k]
              /\ \A k \in Keys(dh) \cup Keys(oh) :
                    (Truthy(c.data) /\ Lower(k) = Lower(ContentType))
                    \/ HeaderOnWire(HeadersOf(c.opt), k) = HeaderOnWire(MergeObject(dh, oh), k)]_vars

\* C4: in RESTClient, the class whose RESTError carries method, url and
\* response, a call whose response has a status outside 200..299 raises a
\* RESTError with the verb's method, the URL the request was sent to and the
\* transport's response; it never parses the body and never returns a value.
C4_NonOkRaisesRESTError ==
    \A i \in DOMAIN calls :
       LET c == calls[i]
       IN (variant = "RESTClient" /\ Responded(i)
           /\ (c.res.status < 200 \/ c.res.status > 299)) =>
             /\ c.pc = "done"
             /\ c.jsons = 0
             /\ c.outcome = [kind |-> "throw",
                             error |-> [t |-> "RESTError", method |-> MethodOf(c.verb),
                                        url |-> c.url, response |-> c.res]]
             /\ c.url = buildAbsoluteURL(baseURL, c.path, SearchOf(c.params))

\* a PATCH answered with status 300 has raised its RESTError
C4_Witness ==
    \E i \in DOMAIN calls :
       /\ variant = "RESTClient"
       /\ Responded(i)
       /\ calls[i].verb = "patch"
       /\ calls[i].res.status = 300
       /\ calls[i].outcome.kind = "throw"
       /\ calls[i].outcome.error.t = "RESTError"

IsJsonText(text) == \E v \in JsonUniverse : JSONstringify(v) = text

\* C5: in RestClient, the class whose RESTError carries status and data, a
\* call whose response is not ok raises a RESTError whose status is the
\* response's status and whose data is the value the response's body is the
\* JSON text of (a POST answered with 422 is one case).
C5_ErrorCarriesStatusAndBody ==
    \A i \in DOMAIN calls :
       LET c == calls[i]
       IN (variant = "RestClient" /\ c.pc = "done" /\ "res" \in DOMAIN c /\ ~Ok(c.res)) =>
             /\ c.outcome.kind = "throw"
             /\ c.outcome.error.t = "RESTError"
             /\ c.outcome.error.status = c.res.status
             /\ JSONstringify(c.outcome.error.data) = c.res.body

\* a body with content: an object, an array or a string that is not empty
NonEmptyBody(d) ==
    \/ d.t = "obj" /\ d.kv # <<>>
    \/ d.t = "arr" /\ d.items # <<>>
    \/ d.t = "str" /\ d.s # ""

\* C6: a post, put, patch or delete call with a non-empty body hands the
\* transport a request whose Content-Type header is application/json,
\* whatever Content-Type the call-site options carry, and whose payload is
\* the JSON text of the body passed.
C6_BodySentAsJson ==
    \A i \in DOMAIN calls :
       LET c == calls[i]
       IN (c.pc # "idle" /\ c.verb \in {"post", "put", "patch", "delete"}
           /\ NonEmptyBody(c.data)) =>
             /\ HeaderOnWire(HeadersOf(c.opt), ContentType) = ApplicationJson
             /\ "body" \in DOMAIN c.opt
             /\ JSONparse(c.opt["body"]) = [ok |-> TRUE, value |-> c.data]

FieldOf(o, k) == IF k \in DOMAIN o THEN <<o[k]>> ELSE <<>>

\* C7: a call without a body hands the transport exactly the headers and the
\* body of the call-site options merged over defaultOptions: no Content-Type
\* and no payload are added.
C7_NoBodyLeavesMergedOptions ==
    [][\A i \in DOMAIN calls :
         (Started(i) /\ calls'[i].data = Undefined) =>
           LET c == calls'[i]
               merged == deepMerge(defaultOptions, c.options)
           IN /\ HeadersOf(c.opt) = HeadersOf(merged)
              /\ FieldOf(c.opt, "body") = FieldOf(merged, "body")]_vars

\* C8: get, post, put, delete, patch and trace return the value the body of
\* a response with status in 200..299 is the JSON text of; a response with
\* an empty body, such as a 204, makes the call return as well.
C8_OkReturnsParsedBody ==
    \A i \in DOMAIN calls :
       LET c == calls[i]
       IN (c.pc = "done" /\ "res" \in DOMAIN c
           /\ c.res.status >= 200 /\ c.res.status < 300
           /\ c.verb \in {"get", "post", "put", "delete", "patch", "trace"}
           /\ (c.res.body = "" \/ IsJsonText(c.res.body))) =>
             /\ c.outcome.kind = "return"
             /\ c.res.body # "" =>
                  /\ c.outcome.value.t = "json"
                  /\ JSONstringify(c.outcome.value.v) = c.res.body

\* C9: a head call never calls res.json(), and returns the headers of a
\* response that is ok.
C9_HeadNeverParses ==
    \A i \in DOMAIN calls :
       LET c == calls[i]
       IN (c.pc # "idle" /\ c.verb = "head") =>
             /\ c.jsons = 0
             /\ c.pc # "json"
             /\ (c.pc = "done" /\ "res" \in DOMAIN c /\ Ok(c.res)) =>
                  c.outcome = [kind |-> "return",
                               value |-> [t |-> "headers", h |-> c.res.headers]]

RECURSIVE CommaPieces(_, _)
\* the pieces of s between its commas
CommaPieces(s, piece) ==
    IF s = <<>> THEN <<piece>>
    ELSE IF s[1] = "," THEN <<piece>> \o CommaPieces(Tail(s), <<>>)
    ELSE CommaPieces(Tail(s), Append(piece, s[1]))

RECURSIVE Stripped(_)
\* s without the white space at its two ends
Stripped(s) ==
    IF s = <<>> THEN s
    ELSE IF s[1] \in {" ", "\t"} THEN Stripped(Tail(s))
    ELSE IF s[Len(s)] \in {" ", "\t"} THEN Stripped(SubSeq(s, 1, Len(s) - 1))
    ELSE s

\* C10: an options call never calls res.json(); answered with an ok response
\* it returns the pieces of the Allow header between its commas, each without
\* the white space at its ends, and the empty sequence when the response has
\* no Allow header.
C10_OptionsReturnsAllow ==
    \A i \in DOMAIN calls :
       LET c == calls[i]
       IN (c.pc # "idle" /\ c.verb = "options") =>
             /\ c.jsons = 0
             /\ c.pc # "json"
             /\ (c.pc = "done" /\ "res" \in DOMAIN c
                 /\ c.res.status >= 200 /\ c.res.status <= 299) =>
                  /\ c.outcome.kind = "return"
                  /\ c.outcome.value.t = "list"
                  /\ LET allow == c.res.headers.allow
                         items == c.outcome.value.items
                         pieces == CommaPieces(allow, <<>>)
                     IN IF allow = NullAllow THEN items = <<>>
                        ELSE /\ items = [n \in 1..Len(pieces) |-> Stripped(pieces[n])]
                             /\ \A n \in 1..Len(items) :
                                   items[n] = <<>>
                                   \/ {items[n][1], items[n][Len(items[n])]}
                                         \cap {" ", "\t"} = {}

\* an options call answered with Allow: G ,<tab>G has returned the two tokens
C10_Witness ==
    \E i \in DOMAIN calls :
       /\ calls[i].pc = "done"
       /\ calls[i].verb = "options"
       /\ "res" \in DOMAIN calls[i]
       /\ calls[i].res.status = 200
       /\ calls[i].res.body = "<html>"
       /\ calls[i].res.headers.allow = <<"G", " ", ",", "\t", "G">>
       /\ calls[i].outcome = [kind |-> "return",
                              value |-> [t |-> "list", items |-> << <<"G">>, <<"G">> >>]]

\* C11: a connect call never calls res.json(); answered with an ok response
\* it returns no value, and answered with a response that is not ok it raises
\* a RESTError.
C11_ConnectReturnsNothing ==
    \A i \in DOMAIN calls :
       LET c == calls[i]
       IN (c.pc # "idle" /\ c.verb = "connect") =>
             /\ c.jsons = 0
             /\ c.pc # "json"
             /\ (c.pc = "done" /\ "res" \in DOMAIN c) =>
                  IF c.res.status >= 200 /\ c.res.status <= 299
                  THEN c.outcome = [kind |-> "return", value |-> [t |-> "void"]]
                  ELSE /\ c.outcome.kind = "throw"
                       /\ c.outcome.error.t = "RESTError"
                       /\ c.outcome.error.response = c.res

\* a connect call answered 200 with a body that is no JSON has returned nothing
C11_Witness ==
    \E i \in DOMAIN calls :
       /\ calls[i].pc = "done"
       /\ calls[i].verb = "connect"
       /\ "res" \in DOMAIN calls[i]
       /\ calls[i].res.status = 200
       /\ calls[i].res.body = "<html>"
       /\ calls[i].outcome = [kind |-> "return", value |-> [t |-> "void"]]

\* C12: no step of a verb-method call (its start, the transport resolving or
\* rejecting, the body being parsed, its completion) changes defaultOptions,
\* its nested headers included, or baseURL.
C12_CallsLeaveClientState ==
    [][(\E i \in DOMAIN calls : calls'[i] # calls[i]) =>
          /\ defaultOptions' = defaultOptions
          /\ HeadersOf(defaultOptions') = HeadersOf(defaultOptions)
          /\ baseURL' = baseURL]_vars

\* a call with data and call-site headers has failed in the transport on a
\* client whose defaultOptions hold two headers
C12_Witness ==
    \E i \in DOMAIN calls :
       /\ calls[i].pc = "done"
       /\ calls[i].data = UserData
       /\ HeadersOf(calls[i].options) # <<>>
       /\ calls[i].outcome.kind = "throw"
       /\ calls[i].outcome.error.t = "TypeError"
       /\ Len(HeadersOf(defaultOptions)) = 2

\* C13: a call whose transport invocation rejected fails with the very error
\* value the transport rejected with: no RESTError, no other error, no
\* returned value, and no response body is read.
C13_TransportFailurePropagates ==
    \A i \in DOMAIN calls :
       LET c == calls[i]
       IN "err" \in DOMAIN c =>
             /\ c.pc = "done"
             /\ c.outcome.kind = "throw"
             /\ c.outcome.error = c.err
             /\ c.outcome.error.t # "RESTError"
             /\ c.jsons = 0
             /\ "res" \notin DOMAIN c

\* a post with data whose transport was aborted has failed with the AbortError
C13_Witness ==
    \E i \in DOMAIN calls :
       /\ "err" \in DOMAIN calls[i]
       /\ calls[i].verb = "post"
       /\ calls[i].data = UserData
       /\ calls[i].err = [t |-> "AbortError"]
       /\ calls[i].outcome = [kind |-> "throw", error |-> [t |-> "AbortError"]]

C15_AuthIsUpdateOptions ==
    [][(nupdates' # nupdates /\ authed' # Null
        /\ HeaderOnWire(HeadersOf(lastOptions'), "Authentication") # Null) =>
          LET old == HeadersOf(defaultOptions)
              new == HeadersOf(defaultOptions')
          IN /\ Lookup(new, "Authentication") = authed'
             /\ Keys(new) = Keys(old) \cup {"Authentication"}
             /\ \A k \in Keys(old) \ {"Authentication"} : Lookup(new, k) = Lookup(old, k)
             /\ DOMAIN defaultOptions' = DOMAIN defaultOptions \cup {"headers"}
             /\ \A k \in DOMAIN defaultOptions \ {"headers"} :
                   defaultOptions'[k] = defaultOptions[k]
             /\ defaultOptions' =
                   updateOptions(variant, defaultOptions,
                                 [headers |-> << <<"Authentication", authed'>> >>])]_vars

\* after two auth calls on a client constructed with a Content-Type header,
\* the headers are that Content-Type and the second token
C15_Witness ==
    /\ nupdates = 2
    /\ authed = "Bearer xyz"
    /\ HeadersOf(defaultOptions) =
          << <<ContentType, ApplicationJson>>, <<"Authentication", "Bearer xyz">> >>

\* C16: the method field of the options handed to the transport is the HTTP
\* method of the verb method called, also when the call-site options or
\* defaultOptions hold another method.
C16_MethodFixedPerVerb ==
    \A i \in DOMAIN calls :
       LET c == calls[i]
       IN c.pc # "idle" =>
             /\ "method" \in DOMAIN c.opt
             /\ c.opt["method"] =
                   (CASE c.verb = "get" -> "GET"
                      [] c.verb = "head" -> "HEAD"
                      [] c.verb = "post" -> "POST"
                      [] c.verb = "put" -> "PUT"
                      [] c.verb = "delete" -> "DELETE"
                      [] c.verb = "patch" -> "PATCH"
                      [] c.verb = "options" -> "OPTIONS"
                      [] c.verb = "connect" -> "CONNECT"
                      [] c.verb = "trace" -> "TRACE")

\* a delete call with call-site method PURGE on a client whose defaultOptions
\* hold method PURGE has handed the transport method DELETE
C16_Witness ==
    \E i \in DOMAIN calls :
       /\ calls[i].pc = "fetch"
       /\ calls[i].verb = "delete"
       /\ "method" \in DOMAIN calls[i].options
       /\ calls[i].options["method"] = "PURGE"
       /\ "method" \in DOMAIN defaultOptions
       /\ defaultOptions["method"] = "PURGE"
       /\ calls[i].opt["method"] = "DELETE"

\* C17: the URL a request is sent to is its path resolved against baseURL:
\* a path that starts with "./" is appended to the directory of the base's
\* path (base https://api.example.com/api/ and ./tags give /api/tags), and a
\* path that starts with "/" replaces the base's path (/users gives /users,
\* without the /api prefix).
C17_PathResolvedAgainstBase ==
    \A i \in DOMAIN calls :
       LET c == calls[i]
       IN c.pc # "idle" =>
             /\ c.url.origin = baseURL.origin
             /\ c.path.abs => c.url.path = c.path.segs
             /\ c.path = [abs |-> FALSE, segs |-> <<".", "tags">>] =>
                   c.url.path = SubSeq(baseURL.path, 1, Len(baseURL.path) - 1) \o <<"tags">>

\* C18: a call answered with a status outside 200..299 raises a RESTError,
\* not the decoder's SyntaxError, a transport error or a value, whatever the
\* body of the response (empty, JSON text, or text that is no JSON).
C18_NonOkAlwaysRESTError ==
    \A i \in DOMAIN calls :
       LET c == calls[i]
       IN (c.pc = "done" /\ "res" \in DOMAIN c
           /\ (c.res.status < 200 \/ c.res.status > 299)) =>
             /\ c.outcome.kind = "throw"
             /\ c.outcome.error.t = "RESTError"
             /\ c.outcome.error.t \notin {"SyntaxError", "TypeError", "AbortError"}

\* C19: a get, post, put, delete, patch or trace call answered with a status
\* in 200..299 and a body that is no JSON text has read the body once and
\* failed with the decoder's SyntaxError: no RESTError, no value.
C19_MalformedBodyRaisesParseError ==
    \A i \in DOMAIN calls :
       LET c == calls[i]
       IN (c.pc = "done" /\ "res" \in DOMAIN c
           /\ c.res.status >= 200 /\ c.res.status <= 299
           /\ c.verb \in {"get", "post", "put", "delete", "patch", "trace"}
           /\ ~IsJsonText(c.res.body)) =>
             /\ c.jsons = 1
             /\ c.outcome = [kind |-> "throw", error |-> [t |-> "SyntaxError"]]

\* a trace call answered 299 with the body <html> has failed with the
\* SyntaxError
C19_Witness ==
    \E i \in DOMAIN calls :
       /\ calls[i].pc = "done"
       /\ calls[i].verb = "trace"
       /\ "res" \in DOMAIN calls[i]
       /\ calls[i].res.status = 299
       /\ calls[i].res.body = "<html>"
       /\ calls[i].outcome.kind = "throw"
       /\ calls[i].outcome.error.t = "SyntaxError"

\* the arguments and the request of a call
RequestOf(c) == <<c.verb, c.path, c.params, c.data, c.options, c.url, c.opt>>

\* C20: with several calls outstanding, every step of one call leaves the
\* other calls as they are; the request of a call carries its own method,
\* path and data and stays the same until the call is complete; and a
\* complete call has returned the value of its own response's body, or
\* raised a RESTError holding its own response, or the SyntaxError of its
\* own body, or the error its own transport invocation rejected with.
C20_ConcurrentCallsIndependent ==
    [][/\ \A i, j \in DOMAIN calls :
             i # j => (calls'[i] = calls[i] \/ calls'[j] = calls[j])
       /\ \A i \in DOMAIN calls :
             (calls[i].pc # "idle" /\ calls'[i].pc # "idle") =>
                RequestOf(calls'[i]) = RequestOf(calls[i])
       /\ \A i \in DOMAIN calls :
             Started(i) =>
                LET c == calls'[i]
                IN /\ c.opt["method"] = (IF c.verb = "get" THEN "GET" ELSE "POST")
                   /\ c.url.path[Len(c.url.path)] = c.path.segs[Len(c.path.segs)]
                   /\ ("body" \in DOMAIN c.opt) = (c.data # Undefined)
                   /\ c.data # Undefined => JSONparse(c.opt["body"]).value = c.data
       /\ \A i \in DOMAIN calls :
             (calls[i].pc # "done" /\ calls'[i].pc = "done") =>
                LET c == calls'[i]
                    o == c.outcome
                IN IF "err" \in DOMAIN c THEN o = [kind |-> "throw", error |-> c.err]
                   ELSE /\ "res" \in DOMAIN c
                        /\ calls[i].pc = "json" => c.res = calls[i].res
                        /\ o.kind = "return" =>
                              /\ c.res.status \in 200..299
                              /\ JSONstringify(o.value.v) = c.res.body
                        /\ o.kind = "throw" =>
                              \/ /\ o.error.t = "SyntaxError"
                                 /\ ~IsJsonText(c.res.body)
                              \/ /\ o.error.t = "RESTError"
                                 /\ c.res.status \notin 200..299
                                 /\ variant = "RESTClient" => o.error.response = c.res
                                 /\ variant = "RestClient" => o.error.status = c.res.status]_vars

\* a post with data is still waiting for the transport while a get started
\* on the same client has been answered 422 and has failed
C20_Witness ==
    /\ calls[1].pc = "fetch"
    /\ calls[1].verb = "post"
    /\ calls[1].data = UserData
    /\ calls[2].pc = "done"
    /\ calls[2].verb = "get"
    /\ "res" \in DOMAIN calls[2]
    /\ calls[2].res.status = 422
    /\ calls[2].outcome.kind = "throw"

\* C21: a post, put, delete, patch or options call given a body, whatever
\* JSON value the body is (0, false, "" and null included), hands the
\* transport a request whose Content-Type header is application/json and
\* whose payload is the JSON text of the body (stated for call-site options
\* that carry no headers of their own).
C21_FalsyBodySentAsJson ==
    \A i \in DOMAIN calls :
       LET c == calls[i]
       IN (c.pc # "idle" /\ c.verb \in {"post", "put", "delete", "patch", "options"}
           /\ c.data # [t |-> "undefined"] /\ "headers" \notin DOMAIN c.options) =>
             /\ HeaderOnWire(HeadersOf(c.opt), ContentType) = ApplicationJson
             /\ "body" \in DOMAIN c.opt
             /\ c.opt["body"] = JSONstringify(c.data)

\* C22: an updateOptions or auth call changes defaultOptions and nothing
\* else: the requests in flight, the options and URL handed to the transport
\* included, are as before, and a request that was in flight during such a
\* call completes as its own request and response say (the value of the
\* response's body, a RESTError for the request's method and URL or the
\* response's status, the decoder's SyntaxError, or the transport's error).
C22_UpdateLeavesInFlightRequest ==
    [][/\ nupdates' # nupdates =>
             /\ calls' = calls
             /\ baseURL' = baseURL
             /\ variant' = variant
       /\ \A i \in DOMAIN calls :
             (calls[i].pc \in {"fetch", "json"} /\ calls'[i].pc # "idle") =>
                /\ calls'[i].opt = calls[i].opt
                /\ calls'[i].url = calls[i].url
       /\ \A i \in DOMAIN calls :
             (calls[i].pc \in {"fetch", "json"} /\ calls'[i].pc = "done") =>
                LET c == calls'[i]
                    o == c.outcome
                IN IF "err" \in DOMAIN c THEN o = [kind |-> "throw", error |-> c.err]
                   ELSE IF c.res.status \in 200..299 \/ variant = "RestClient"
                   THEN IF IsJsonText(c.res.body)
                        THEN IF c.res.status \in 200..299
                             THEN /\ o.kind = "return"
                                  /\ JSONstringify(o.value.v) = c.res.body
                             ELSE /\ o.kind = "throw"
                                  /\ o.error.t = "RESTError"
                                  /\ o.error.status = c.res.status
                        ELSE o = [kind |-> "throw", error |-> [t |-> "SyntaxError"]]
                   ELSE o = [kind |-> "throw",
                             error |-> [t |-> "RESTError", method |-> c.opt["method"],
                                        url |-> c.url, response |-> c.res]]]_vars

\* a post started on the client as constructed, with an auth call made while
\* it was in flight, has returned its response's body; its request carries
\* no Authentication header
C22_Witness ==
    /\ calls[1].pc = "done"
    /\ calls[1].verb = "post"
    /\ calls[1].data = UserData
    /\ authed = "Bearer abc123"
    /\ nupdates > 0
    /\ HeaderOnWire(HeadersOf(calls[1].opt), "Authentication") = Null
    /\ calls[1].outcome.kind = "return"
    /\ calls[1].outcome.value.v = TagsBody

====
